---- MODULE Spec2Model ----
(***************************************************************************)
(* Room coordination core of app/model.py: the `rooms` and `user` tables   *)
(* and the transactions create_room, room_join, room_wait, room_start,     *)
(* room_end, room_result and room_leave that read and write them.          *)
(*                                                                         *)
(* A row of `rooms` is a record; the JSON roster column `users` is a       *)
(* sequence of entries.  A roster entry's optional keys judge_count_list   *)
(* and score are written together (model.py:330-331), so one flag          *)
(* has_score says whether they are present.  The columns name,             *)
(* leader_card_id and live_id are copied but never read by a decision of   *)
(* the code and are left out.                                              *)
(*                                                                         *)
(* Every call runs in its own transaction (engine.begin()).  A SELECT ...  *)
(* FOR UPDATE holds the row lock until commit, so everything from that     *)
(* statement to the end of the transaction is one step.  What a            *)
(* transaction reads before it takes the lock (room_join's read of         *)
(* user.room_id, room_wait's plain SELECT) is a step of its own, and the   *)
(* transaction is in flight between the two.                               *)
(*                                                                         *)
(* `last` is the outcome of the call whose outcome was fixed last: the     *)
(* value returned or the exception raised, and the length of a returned    *)
(* list.  The lists themselves are the operators RoomUserList and          *)
(* _room_result of the row read.                                           *)
(***************************************************************************)
EXTENDS Integers, Sequences, FiniteSets, Bags, TLC

\* ---- bounds of the model ----
NumUsers == 3
MaxInFlight == 1
MaxRooms == 1
MaxRoster == 3
MaxResCnt == 3
MaxTicks == 1
MaxScore == 1
MaxDif == 1
\* transactions in flight at once in SpecTwice
MaxConcurrent == 2
\* rooms.m_usr_cnt is filled by the column default of the schema
MaxUserCount == 2

\* ---- program constants ----
Waiting == 1
Playing == 2
Dissolved == 3
Timeout == 5
NoRoom == 0

Users == 1..NumUsers
RoomIds == 1..MaxRooms
LiveDifficulty == {1, 2}
Difficulties == {d \in LiveDifficulty : d <= MaxDif}
Scores == 1..MaxScore
JudgeLists == {<<s, 0, 0, 0, 0>> : s \in Scores}
NoJudge == <<>>
Absentee == [judge_count_list |-> <<-1, -1, -1, -1, -1>>, score |-> -1]

VARIABLES
    user_room,      \* user.room_id of every user (NoRoom: NULL)
    rooms,          \* the rooms table: room_id -> row, for the rows that exist
    next_room_id,   \* AUTO_INCREMENT of rooms.room_id
    now,            \* datetime.datetime.now(), in minutes
    inflight,       \* the bag of transactions that have read and not yet committed
    last,           \* the outcome of the last call
    history         \* the outcomes so far, kept by SpecJoin only

vars == <<user_room, rooms, next_room_id, now, inflight, last, history>>

\* ---- helpers ----
Min(a, b) == IF a < b THEN a ELSE b

RemoveAt(s, i) == SubSeq(s, 1, i - 1) \o SubSeq(s, i + 1, Len(s))

Ids(users) == {users[i].id : i \in 1..Len(users)}

Matches(users, uid) == {i \in 1..Len(users) : users[i].id = uid}

FirstMatch(users, uid) == CHOOSE i \in Matches(users, uid) : \A j \in Matches(users, uid) : i <= j

\* a transaction in flight: room_join after its read of user.room_id,
\* room_wait after its read of the row
JoinTxn(u, room_id, live_dif, old_room_id) ==
    [op |-> "room_join", user |-> u, room_id |-> room_id, live_dif |-> live_dif,
     old_room_id |-> old_room_id, hst_id |-> 0]

WaitTxn(room_id, hst_id) ==
    [op |-> "room_wait", user |-> 0, room_id |-> room_id, live_dif |-> 0,
     old_room_id |-> 0, hst_id |-> hst_id]

Begin(t) == inflight (+) SetToBag({t})

Commit(t) == inflight (-) SetToBag({t})

NoCall == [op |-> "none", user |-> 0, room_id |-> 0, val |-> "none", n |-> 0]

Returned(op, user, room_id, val, n) ==
    [op |-> op, user |-> user, room_id |-> room_id, val |-> val, n |-> n]

\* the roster entry create_room and room_join build
NewEntry(uid, live_dif) ==
    [id |-> uid, live_dif |-> live_dif, has_score |-> FALSE,
     judge_count_list |-> NoJudge, score |-> 0]

\* the column defaults of a new rooms row
SchemaDefaults ==
    [status |-> Waiting, j_usr_cnt |-> 1, m_usr_cnt |-> MaxUserCount, r_res_cnt |-> 0,
     begun |-> FALSE, time_begin |-> 0]

DeleteRow(tbl, room_id) == [r \in (DOMAIN tbl) \ {room_id} |-> tbl[r]]

PutRow(tbl, room_id, row) == [r \in (DOMAIN tbl) \cup {room_id} |-> IF r = room_id THEN row ELSE tbl[r]]

Init ==
    /\ user_room = [u \in Users |-> NoRoom]
    /\ rooms = <<>>
    /\ next_room_id = 1
    /\ now = 0
    /\ inflight = EmptyBag
    /\ last = NoCall
    /\ history = <<>>

\* ---- create_room ----
_create_room(uid, live_dif, time_now) ==
    [hst_id |-> uid, users |-> <<NewEntry(uid, live_dif)>>, time_made |-> time_now,
     status |-> SchemaDefaults.status, j_usr_cnt |-> SchemaDefaults.j_usr_cnt,
     m_usr_cnt |-> SchemaDefaults.m_usr_cnt, r_res_cnt |-> SchemaDefaults.r_res_cnt,
     begun |-> SchemaDefaults.begun, time_begin |-> SchemaDefaults.time_begin]

create_room(u, live_dif) ==
    /\ last = NoCall
    /\ next_room_id <= MaxRooms
    /\ rooms' = PutRow(rooms, next_room_id, _create_room(u, live_dif, now))
    /\ user_room' = [user_room EXCEPT ![u] = next_room_id]
    /\ next_room_id' = next_room_id + 1
    /\ last' = Returned("create_room", u, next_room_id, "Ok", 0)
    /\ UNCHANGED <<now, inflight>>

\* ---- room_join ----
\* for i, User in enumerate(users): if User["id"] == user.id: users.pop(i)
\* (the list iterator goes on to index i+1 of the shortened list)
RECURSIVE PopWhileEnumerating(_, _, _)
PopWhileEnumerating(users, i, uid) ==
    IF i > Len(users) THEN users
    ELSE IF users[i].id = uid THEN PopWhileEnumerating(RemoveAt(users, i), i + 1, uid)
    ELSE PopWhileEnumerating(users, i + 1, uid)

\* mutant: the status is tested before the capacity
JoinOutcome_StatusFirst(tbl, room_id, old_room_id) ==
    IF room_id \notin DOMAIN tbl THEN "OtherError"
    ELSE IF room_id = old_room_id THEN "Ok"
    ELSE IF tbl[room_id].status = Dissolved THEN "Disbanded"
    ELSE IF tbl[room_id].status # Waiting THEN "OtherError"
    ELSE IF tbl[room_id].j_usr_cnt = tbl[room_id].m_usr_cnt THEN "RoomFull"
    ELSE "Ok"

\* mutant: the capacity test lets one more in
JoinOutcome_OffByOne(tbl, room_id, old_room_id) ==
    IF room_id \notin DOMAIN tbl THEN "OtherError"
    ELSE IF room_id = old_room_id THEN "Ok"
    ELSE IF tbl[room_id].j_usr_cnt > tbl[room_id].m_usr_cnt THEN "RoomFull"
    ELSE IF tbl[room_id].status = Dissolved THEN "Disbanded"
    ELSE IF tbl[room_id].status # Waiting THEN "OtherError"
    ELSE "Ok"

JoinOutcome(tbl, room_id, old_room_id) ==
    IF room_id \notin DOMAIN tbl THEN "OtherError"
    ELSE IF room_id = old_room_id THEN "Ok"
    ELSE IF tbl[room_id].j_usr_cnt = tbl[room_id].m_usr_cnt THEN "RoomFull"
    ELSE IF tbl[room_id].status = Dissolved THEN "Disbanded"
    ELSE IF tbl[room_id].status # Waiting THEN "OtherError"
    ELSE "Ok"

\* mutant: the newcomer is put at the head of the roster
JoinedRow_AtHead(row, uid, room_id, old_room_id, live_dif) ==
    LET kept == IF room_id = old_room_id THEN PopWhileEnumerating(row.users, 1, uid)
                ELSE row.users
        j_usr_cnt == row.j_usr_cnt + 1 - (Len(row.users) - Len(kept))
    IN [row EXCEPT !.j_usr_cnt = j_usr_cnt,
                   !.users = <<NewEntry(uid, live_dif)>> \o kept]

JoinedRow(row, uid, room_id, old_room_id, live_dif) ==
    LET kept == IF room_id = old_room_id THEN PopWhileEnumerating(row.users, 1, uid)
                ELSE row.users
        j_usr_cnt == row.j_usr_cnt + 1 - (Len(row.users) - Len(kept))
    IN [row EXCEPT !.j_usr_cnt = j_usr_cnt,
                   !.users = Append(kept, NewEntry(uid, live_dif))]

\* room_join up to its read of the caller's user row
room_join(u, room_id, live_dif) ==
    /\ last = NoCall
    /\ inflight' = Begin(JoinTxn(u, room_id, live_dif, user_room[u]))
    /\ UNCHANGED <<user_room, rooms, next_room_id, now, last>>

\* _room_join, from SELECT ... FOR UPDATE to the commit
_room_join(t) ==
    LET out == JoinOutcome(rooms, t.room_id, t.old_room_id) IN
    /\ last = NoCall
    /\ t.op = "room_join"
    /\ inflight' = Commit(t)
    /\ last' = Returned("room_join", t.user, t.room_id, out, 0)
    /\ IF out = "Ok"
       THEN LET new == JoinedRow(rooms[t.room_id], t.user, t.room_id, t.old_room_id, t.live_dif)
            IN /\ Len(new.users) <= MaxRoster
               /\ rooms' = [rooms EXCEPT ![t.room_id] = new]
               /\ user_room' = [user_room EXCEPT ![t.user] = t.room_id]
       ELSE UNCHANGED <<user_room, rooms>>
    /\ UNCHANGED <<next_room_id, now>>

\* ---- room_start ----
\* mutant: the UPDATE is not conditioned on hst_id
_room_start_AnyCaller(tbl, uid, room_id, time_now) ==
    [r \in DOMAIN tbl |->
        IF r = room_id
        THEN [tbl[r] EXCEPT !.status = Playing, !.begun = TRUE, !.time_begin = time_now]
        ELSE tbl[r]]

\* UPDATE rooms SET status = 2, time_begin = now WHERE room_id = .. AND hst_id = ..
_room_start(tbl, uid, room_id, time_now) ==
    [r \in DOMAIN tbl |->
        IF r = room_id /\ tbl[r].hst_id = uid
        THEN [tbl[r] EXCEPT !.status = Playing, !.begun = TRUE, !.time_begin = time_now]
        ELSE tbl[r]]

room_start(u, room_id) ==
    /\ last = NoCall
    /\ rooms' = _room_start(rooms, u, room_id, now)
    /\ last' = Returned("room_start", u, room_id, "None", 0)
    /\ UNCHANGED <<user_room, next_room_id, now, inflight>>

\* ---- room_wait ----
WaitRoomStatus(status) ==
    CASE status = 1 -> "Waiting"
      [] status = 2 -> "LiveStart"
      [] status = 3 -> "Dissolution"

RoomUserList(users, uid, hst_id) ==
    [i \in 1..Len(users) |->
        [user_id |-> users[i].id, select_difficulty |-> users[i].live_dif,
         is_me |-> (uid = users[i].id), is_host |-> (hst_id = users[i].id)]]

TimedOut(time_now, since) == time_now - since >= Timeout

\* what room_wait returns, fixed by its read of the row
_room_wait(tbl, u, room_id) ==
    IF room_id \notin DOMAIN tbl
    THEN Returned("room_wait", u, room_id, "Dissolution", 0)
    ELSE Returned("room_wait", u, room_id, WaitRoomStatus(tbl[room_id].status),
                  Len(RoomUserList(tbl[room_id].users, u, tbl[room_id].hst_id)))

\* room_wait up to its read of the row; a row that is not stale ends the call
room_wait(u, room_id) ==
    /\ last = NoCall
    /\ last' = _room_wait(rooms, u, room_id)
    /\ IF room_id \in DOMAIN rooms /\ TimedOut(now, rooms[room_id].time_made)
       THEN /\ BagCardinality(inflight) < MaxInFlight
            /\ inflight' = Begin(WaitTxn(room_id, rooms[room_id].hst_id))
       ELSE UNCHANGED inflight
    /\ UNCHANGED <<user_room, rooms, next_room_id, now>>

\* the _room_start of a stale row's room_wait, with the hst_id it read
room_wait_start(t) ==
    /\ last = NoCall
    /\ t.op = "room_wait"
    /\ inflight' = Commit(t)
    /\ rooms' = _room_start(rooms, t.hst_id, t.room_id, now)
    /\ UNCHANGED <<user_room, next_room_id, now, last>>

\* ---- room_end ----
_room_end(row, uid, judge_count_list, score) ==
    LET users == [i \in 1..Len(row.users) |->
                    IF row.users[i].id = uid
                    THEN [row.users[i] EXCEPT !.has_score = TRUE,
                                              !.judge_count_list = judge_count_list,
                                              !.score = score]
                    ELSE row.users[i]]
        r_res_cnt == row.r_res_cnt + Cardinality(Matches(row.users, uid))
    IN [row EXCEPT !.users = users,
                   !.r_res_cnt = r_res_cnt,
                   !.status = IF r_res_cnt = row.j_usr_cnt THEN Dissolved ELSE row.status]

room_end(u, room_id, judge_count_list, score) ==
    /\ last = NoCall
    /\ IF room_id \notin DOMAIN rooms
       THEN /\ last' = Returned("room_end", u, room_id, "NoResultFound", 0)
            /\ UNCHANGED rooms
       ELSE LET new == _room_end(rooms[room_id], u, judge_count_list, score) IN
            /\ new.r_res_cnt <= MaxResCnt
            /\ rooms' = [rooms EXCEPT ![room_id] = new]
            /\ last' = Returned("room_end", u, room_id, "None", 0)
    /\ UNCHANGED <<user_room, next_room_id, now, inflight>>

\* ---- room_result ----
ResultUserList(users) ==
    [i \in 1..Len(users) |->
        [user_id |-> users[i].id,
         judge_count_list |-> IF users[i].has_score THEN users[i].judge_count_list
                              ELSE Absentee.judge_count_list,
         score |-> IF users[i].has_score THEN users[i].score ELSE Absentee.score]]

_room_result(row, time_now) ==
    LET r_res_cnt == IF TimedOut(time_now, row.time_begin) THEN row.j_usr_cnt ELSE row.r_res_cnt
    IN IF r_res_cnt < row.j_usr_cnt THEN <<>> ELSE ResultUserList(row.users)

room_result(room_id) ==
    /\ last = NoCall
    /\ last' = IF room_id \notin DOMAIN rooms
               THEN Returned("room_result", 0, room_id, "NoResultFound", 0)
               ELSE IF ~rooms[room_id].begun
               THEN Returned("room_result", 0, room_id, "TypeError", 0)
               ELSE Returned("room_result", 0, room_id, "Ok",
                             Len(_room_result(rooms[room_id], now)))
    /\ UNCHANGED <<user_room, rooms, next_room_id, now, inflight>>

\* ---- room_leave ----
\* what _room_leave does with the row it read: "remove" (j_usr_cnt - 1 is 0),
\* "return" (not a member), "IndexError" (users[0] of an empty roster) or "update"
\* mutant: the room of the last member is kept
LeaveOutcome_NoRemove(row, uid) ==
    IF Matches(row.users, uid) = {} THEN "return"
    ELSE LET i == FirstMatch(row.users, uid)
             users == IF row.users[i].has_score THEN row.users ELSE RemoveAt(row.users, i)
         IN IF row.hst_id = uid /\ users = <<>> THEN "IndexError" ELSE "update"

LeaveOutcome(row, uid) ==
    IF row.j_usr_cnt - 1 = 0 THEN "remove"
    ELSE IF Matches(row.users, uid) = {} THEN "return"
    ELSE LET i == FirstMatch(row.users, uid)
             users == IF row.users[i].has_score THEN row.users ELSE RemoveAt(row.users, i)
         IN IF row.hst_id = uid /\ users = <<>> THEN "IndexError" ELSE "update"

LeftRow(row, uid) ==
    LET i == FirstMatch(row.users, uid)
        scored == row.users[i].has_score
        users == IF scored THEN row.users ELSE RemoveAt(row.users, i)
    IN [row EXCEPT !.j_usr_cnt = row.j_usr_cnt - 1,
                   !.users = users,
                   !.hst_id = IF row.hst_id = uid THEN users[1].id ELSE row.hst_id,
                   !.r_res_cnt = IF scored THEN row.r_res_cnt - 1 ELSE row.r_res_cnt]

_room_leave(tbl, uid, room_id) ==
    LET out == LeaveOutcome(tbl[room_id], uid) IN
    IF out = "remove" THEN DeleteRow(tbl, room_id)
    ELSE IF out = "update" THEN [tbl EXCEPT ![room_id] = LeftRow(tbl[room_id], uid)]
    ELSE tbl

room_leave(u, room_id) ==
    /\ last = NoCall
    /\ IF room_id \notin DOMAIN rooms
       THEN /\ last' = Returned("room_leave", u, room_id, "NoResultFound", 0)
            /\ UNCHANGED rooms
       ELSE /\ rooms' = _room_leave(rooms, u, room_id)
            /\ last' = Returned("room_leave", u, room_id,
                          IF LeaveOutcome(rooms[room_id], u) = "IndexError"
                          THEN "IndexError" ELSE "None", 0)
    /\ UNCHANGED <<user_room, next_room_id, now, inflight>>

\* ---- a token no user row holds ----
\* _get_user_by_token returns None; every caller subscripts or unpacks it
Operations == {"create_room", "room_join", "room_wait", "room_start", "room_end", "room_leave"}

_get_user_by_token(op) == Returned(op, 0, 0, "TypeError", 0)

unknown_token(op) ==
    /\ last = NoCall
    /\ last' = _get_user_by_token(op)
    /\ UNCHANGED <<user_room, rooms, next_room_id, now, inflight>>

\* ---- the caller takes the outcome ----
Respond ==
    /\ last # NoCall
    /\ last' = NoCall
    /\ UNCHANGED <<user_room, rooms, next_room_id, now, inflight>>

\* ---- the clock ----
Tick ==
    /\ last = NoCall
    /\ now < MaxTicks * Timeout
    /\ now' = now + Timeout
    /\ UNCHANGED <<user_room, rooms, next_room_id, inflight, last>>

Free == BagCardinality(inflight) < MaxInFlight

Next ==
    \/ \E u \in Users, d \in Difficulties : create_room(u, d) /\ UNCHANGED history
    \/ \E u \in Users, r \in RoomIds, d \in Difficulties :
          Free /\ room_join(u, r, d) /\ UNCHANGED history
    \/ \E t \in BagToSet(inflight) : _room_join(t) /\ UNCHANGED history
    \/ \E u \in Users, r \in RoomIds : room_wait(u, r) /\ UNCHANGED history
    \/ \E t \in BagToSet(inflight) : room_wait_start(t) /\ UNCHANGED history
    \/ \E u \in Users, r \in RoomIds : room_start(u, r) /\ UNCHANGED history
    \/ \E u \in Users, r \in RoomIds, j \in JudgeLists, s \in Scores :
          room_end(u, r, j, s) /\ UNCHANGED history
    \/ \E r \in RoomIds : room_result(r) /\ UNCHANGED history
    \/ \E u \in Users, r \in RoomIds : room_leave(u, r) /\ UNCHANGED history
    \/ \E op \in Operations : unknown_token(op) /\ UNCHANGED history
    \/ Respond /\ UNCHANGED history
    \/ Tick /\ UNCHANGED history

Spec == Init /\ [][Next]_vars

\* ---- concurrent joins of one room ----
\* A Waiting room with members m[1], .., m[k] (created by m[1], joined by the
\* others in turn), and joins of it by users who are not members, each user
\* calling once at any time, every call logged in history.
RECURSIVE RoomOf(_, _)
RoomOf(m, d) ==
    IF Len(m) = 1 THEN _create_room(m[1], d, 0)
    ELSE JoinedRow(RoomOf(SubSeq(m, 1, Len(m) - 1), d), m[Len(m)], 1, NoRoom, d)

Rosters == UNION {{m \in [1..k -> Users] : \A i, j \in 1..k : i # j => m[i] # m[j]} :
                  k \in 1..Min(MaxUserCount, NumUsers)}

Callers == {history[i].user : i \in 1..Len(history)} \cup {t.user : t \in BagToSet(inflight)}

InitJoin ==
    \E m \in Rosters, d \in Difficulties :
        /\ user_room = [u \in Users |-> IF u \in Ids(RoomOf(m, d).users) THEN 1 ELSE NoRoom]
        /\ rooms = PutRow(<<>>, 1, RoomOf(m, d))
        /\ next_room_id = 2
        /\ now = 0
        /\ inflight = EmptyBag
        /\ last = NoCall
        /\ history = <<>>

NextJoin ==
    \/ \E u \in Users, d \in Difficulties :
          /\ user_room[u] # 1
          /\ u \notin Callers
          /\ room_join(u, 1, d)
          /\ UNCHANGED history
    \/ \E t \in BagToSet(inflight) : _room_join(t) /\ history' = Append(history, last')
    \/ Respond /\ UNCHANGED history
    \/ Tick /\ UNCHANGED history

SpecJoin == InitJoin /\ [][NextJoin]_vars

\* ---- joins called twice ----
\* The room of InitJoin, and joins and leaves of it by any user, any number of
\* times, with up to MaxConcurrent joins in flight at once: a user may call join
\* again before the first call has committed.
NextTwice ==
    \/ \E u \in Users, d \in Difficulties :
          /\ BagCardinality(inflight) < MaxConcurrent
          /\ room_join(u, 1, d)
          /\ UNCHANGED history
    \/ \E t \in BagToSet(inflight) : _room_join(t) /\ UNCHANGED history
    \/ \E u \in Users : room_leave(u, 1) /\ UNCHANGED history
    \/ Respond /\ UNCHANGED history

SpecTwice == InitJoin /\ [][NextTwice]_vars

\* ======================= the claims =======================

\* C1: every existing room has 0 <= joined_user_count <= max_user_count.
\* (Refuted: a user who left keeps user.room_id, and a join whose old_room_id is
\* the target skips the RoomFull check and adds the user to a full room.)
C1_OccupancyWithinCapacity ==
    \A r \in DOMAIN rooms : 0 <= rooms[r].j_usr_cnt /\ rooms[r].j_usr_cnt <= rooms[r].m_usr_cnt

\* C2: every existing room has 0 <= completed_result_count <= joined_user_count.
\* (Refuted: every room_end of the same member adds one to r_res_cnt.)
C2_ResultsWithinOccupancy ==
    \A r \in DOMAIN rooms : 0 <= rooms[r].r_res_cnt /\ rooms[r].r_res_cnt <= rooms[r].j_usr_cnt

\* C3: a room's status never moves backward along Waiting -> Playing -> Dissolved.
\* (Refuted: _room_start writes status 2 whatever the status was.)
C3_StatusNeverReverses ==
    [][\A r \in (DOMAIN rooms) \cap (DOMAIN rooms') : rooms'[r].status >= rooms[r].status]_vars

\* the step that fixes the outcome of a call of op
Completes(op) == last = NoCall /\ last'.op = op

\* the step in which the join transaction t runs _room_join and commits
JoinCommits(t) ==
    /\ t \in BagToSet(inflight)
    /\ t.op = "room_join"
    /\ Completes("room_join")
    /\ last'.user = t.user /\ last'.room_id = t.room_id
    /\ inflight' = Commit(t)

Count(v) == Cardinality({i \in 1..Len(history) : history[i].val = v})

\* C4: of N concurrent joins by N distinct users who are not in the room, of a
\* Waiting room with capacity C and k members, exactly min(N, C - k) return Ok
\* and the others RoomFull, and the occupancy ends at k + min(N, C - k); this
\* holds of the joins finished so far at every moment, under every interleaving.
C4_ConcurrentJoinsFillToCapacity ==
    LET row == rooms[1]
        k == Cardinality(Ids(row.users) \ {history[i].user : i \in 1..Len(history)})
        N == Len(history)
    IN /\ Count("Ok") = Min(N, row.m_usr_cnt - k)
       /\ Count("RoomFull") = N - Count("Ok")
       /\ row.j_usr_cnt = k + Min(N, row.m_usr_cnt - k)

\* C4 witness: two joins were in the room's queue, one got the last place and
\* the other RoomFull.
C4_Witness ==
    /\ inflight = EmptyBag
    /\ Len(history) = 2
    /\ Count("Ok") = 1
    /\ Count("RoomFull") = 1
    /\ rooms[1].j_usr_cnt = rooms[1].m_usr_cnt

Full(row) == row.j_usr_cnt = row.m_usr_cnt

\* C5 as claimed: a join of a room whose occupancy equals its capacity returns
\* RoomFull and leaves joined_user_count unchanged, for every caller and status.
\* (Refuted: a caller whose user.room_id is the target is not tested for RoomFull.)
C5_FullRoomAlwaysRoomFull ==
    [][\A t \in BagToSet(inflight) :
          (JoinCommits(t) /\ t.room_id \in DOMAIN rooms /\ Full(rooms[t.room_id]))
          => /\ last'.val = "RoomFull"
             /\ t.room_id \in DOMAIN rooms'
             /\ rooms'[t.room_id].j_usr_cnt = rooms[t.room_id].j_usr_cnt]_vars

\* C5 amended: a join by a caller whose current room, as the call read it, is
\* not the target returns RoomFull when the room's occupancy equals its capacity,
\* and leaves the room and the caller's record unchanged, for every room status.
C5_FreshJoinOfFullRoomIsRoomFull ==
    [][\A t \in BagToSet(inflight) :
          (/\ JoinCommits(t)
           /\ t.old_room_id # t.room_id
           /\ t.room_id \in DOMAIN rooms
           /\ Full(rooms[t.room_id]))
          => /\ last'.val = "RoomFull"
             /\ rooms' = rooms
             /\ user_room' = user_room]_vars

\* C5 witness: a join of a full room that is no longer Waiting was answered RoomFull.
C5_Witness ==
    /\ last.op = "room_join"
    /\ last.val = "RoomFull"
    /\ last.room_id \in DOMAIN rooms
    /\ Full(rooms[last.room_id])
    /\ rooms[last.room_id].status = Dissolved
    /\ user_room[last.user] # last.room_id

\* C6: a join by a caller whose current room (as the call read it) is not the
\* target is decided in the order: no such room -> OtherError; occupancy equals
\* capacity -> RoomFull; Dissolved -> Disbanded; not Waiting -> OtherError; else
\* Ok.  Only Ok appends the caller at the end of the roster, adds exactly 1 to the
\* occupancy and sets the caller's current room; every other outcome leaves the
\* rooms and the users unchanged.
C6_Expected(t) ==
    IF t.room_id \notin DOMAIN rooms THEN "OtherError"
    ELSE IF Full(rooms[t.room_id]) THEN "RoomFull"
    ELSE IF rooms[t.room_id].status = Dissolved THEN "Disbanded"
    ELSE IF rooms[t.room_id].status # Waiting THEN "OtherError"
    ELSE "Ok"

C6_FreshJoinDecision ==
    [][\A t \in BagToSet(inflight) :
          (JoinCommits(t) /\ t.old_room_id # t.room_id)
          => /\ last'.val = C6_Expected(t)
             /\ IF last'.val = "Ok"
                THEN LET old == rooms[t.room_id]
                         new == rooms'[t.room_id]
                         n == Len(old.users)
                     IN /\ DOMAIN rooms' = DOMAIN rooms
                        /\ Len(new.users) = n + 1
                        /\ SubSeq(new.users, 1, n) = old.users
                        /\ new.users[n + 1].id = t.user
                        /\ new.users[n + 1].live_dif = t.live_dif
                        /\ ~new.users[n + 1].has_score
                        /\ new.j_usr_cnt = old.j_usr_cnt + 1
                        /\ new = [old EXCEPT !.users = new.users, !.j_usr_cnt = new.j_usr_cnt]
                        /\ \A r \in DOMAIN rooms : r # t.room_id => rooms'[r] = rooms[r]
                        /\ user_room' = [user_room EXCEPT ![t.user] = t.room_id]
                ELSE rooms' = rooms /\ user_room' = user_room]_vars

\* C6 witness: a newcomer's join of a Dissolved room with a free place was
\* answered Disbanded.
C6_Witness ==
    /\ last.op = "room_join"
    /\ last.val = "Disbanded"
    /\ last.room_id \in DOMAIN rooms
    /\ ~Full(rooms[last.room_id])
    /\ last.user \notin Ids(rooms[last.room_id].users)
    /\ user_room[last.user] = NoRoom

\* C7: a join by a caller whose current room is the target (a rejoin) leaves
\* the occupancy unchanged and changes nothing in the room but the difficulty of
\* the caller's roster entry: the roster order, the other entries, the caller's
\* result fields, host, status and completed_result_count stay as they were.
\* (Refuted: the caller's entry is popped and a new one appended at the end,
\* without the result fields.)
C7_RejoinUpdatesOnlyDifficulty ==
    [][\A t \in BagToSet(inflight) :
          (JoinCommits(t) /\ t.old_room_id = t.room_id /\ t.room_id \in DOMAIN rooms)
          => LET old == rooms[t.room_id]
                 users == [i \in 1..Len(old.users) |->
                             IF old.users[i].id = t.user
                             THEN [old.users[i] EXCEPT !.live_dif = t.live_dif]
                             ELSE old.users[i]]
             IN /\ t.room_id \in DOMAIN rooms'
                /\ rooms'[t.room_id] = [old EXCEPT !.users = users]]_vars

\* the step in which user u's room_leave of room r runs
Leaves(u, r) ==
    /\ Completes("room_leave")
    /\ last'.user = u
    /\ last'.room_id = r
    /\ r \in DOMAIN rooms

\* C8: when the sole remaining member of a room calls leave the room is deleted,
\* a deleted room never comes back, and every wait of a room_id that has no room
\* by a valid user returns (Dissolution, empty list).
C8_LastLeaveDeletesRoom ==
    [][/\ \A u \in Users, r \in RoomIds :
             (Leaves(u, r) /\ rooms[r].j_usr_cnt = 1 /\ u \in Ids(rooms[r].users))
             => r \notin DOMAIN rooms'
       /\ \A r \in RoomIds :
             (r < next_room_id /\ r \notin DOMAIN rooms) => r \notin DOMAIN rooms'
       /\ (Completes("room_wait") /\ last'.user \in Users /\ last'.room_id \notin DOMAIN rooms)
             => (last'.val = "Dissolution" /\ last'.n = 0)]_vars

\* C8 witness: a room was created, its room_id has no row any more, and a wait
\* of it was answered (Dissolution, empty list).
C8_Witness ==
    /\ last.op = "room_wait"
    /\ last.user \in Users
    /\ last.room_id < next_room_id
    /\ last.room_id \notin DOMAIN rooms
    /\ last.val = "Dissolution"
    /\ last.n = 0

\* C9: when the host of a room with at least 2 members (occupancy 2 or more, two
\* or more users in the roster) calls leave, the room's host afterwards is
\* another user, and one who is in the roster, whether or not the leaving host
\* had submitted a result.
\* (Refuted: a host who has a score keeps its entry, and users[0] is the host.)
C9_HostLeaveReassignsHost ==
    [][\A u \in Users, r \in RoomIds :
          (/\ Leaves(u, r)
           /\ rooms[r].hst_id = u
           /\ u \in Ids(rooms[r].users)
           /\ rooms[r].j_usr_cnt >= 2
           /\ Cardinality(Ids(rooms[r].users)) >= 2)
          => /\ r \in DOMAIN rooms'
             /\ rooms'[r].hst_id # u
             /\ rooms'[r].hst_id \in Ids(rooms'[r].users)]_vars

\* C10: a leave by a user who is not in the room's roster returns successfully
\* and leaves the room as it was, for every occupancy including 1.
\* (Refuted: j_usr_cnt - 1 = 0 deletes the room before the roster is searched.)
C10_NonMemberLeaveIsNoOp ==
    [][\A u \in Users, r \in RoomIds :
          (Leaves(u, r) /\ u \notin Ids(rooms[r].users))
          => /\ last'.val = "None"
             /\ rooms' = rooms]_vars

\* the step in which user u's room_end of the existing room r runs
Submits(u, r) ==
    /\ Completes("room_end")
    /\ last'.user = u
    /\ last'.room_id = r
    /\ r \in DOMAIN rooms

\* C11: a submit_result by a valid user who is not in the room's roster returns
\* successfully and changes nothing in the room: status, completed_result_count,
\* occupancy and every member's result fields stay as they were.
\* (Refuted: the test r_res_cnt == j_usr_cnt runs for every caller, and writes
\* status 3 when the two counters are already equal.)
C11_NonMemberSubmitIsNoOp ==
    [][\A u \in Users, r \in RoomIds :
          (Submits(u, r) /\ u \notin Ids(rooms[r].users))
          => /\ last'.val = "None"
             /\ rooms' = rooms]_vars

\* the step in which user u's room_start of room_id r runs
Starts(u, r) ==
    /\ Completes("room_start")
    /\ last'.user = u
    /\ last'.room_id = r

\* C12: a start changes a room only when the caller is its current host: a start
\* by a valid user who is not hst_id returns without error and leaves the rooms
\* (status and time_begin included) unchanged, and a start by the host of a
\* Waiting room sets status to Playing and records the time of the call as
\* time_begin.
C12_StartOnlyByHost ==
    [][\A u \in Users, r \in RoomIds :
          Starts(u, r)
          => /\ last'.val = "None"
             /\ (r \notin DOMAIN rooms \/ rooms[r].hst_id # u) => rooms' = rooms
             /\ (r \in DOMAIN rooms /\ rooms[r].hst_id = u /\ rooms[r].status = Waiting)
                   => /\ r \in DOMAIN rooms'
                      /\ rooms'[r].status = Playing
                      /\ rooms'[r].begun
                      /\ rooms'[r].time_begin = now]_vars

\* C12 witness: the host started the room at time 0, and a start by a user who
\* is not the host, 5 minutes later, has left status and time_begin as they were.
C12_Witness ==
    /\ last.op = "room_start"
    /\ last.val = "None"
    /\ last.room_id \in DOMAIN rooms
    /\ rooms[last.room_id].hst_id # last.user
    /\ rooms[last.room_id].status = Playing
    /\ rooms[last.room_id].begun
    /\ rooms[last.room_id].time_begin < now

\* the step in which a room_result of the existing room r runs
Results(r) ==
    /\ Completes("room_result")
    /\ last'.room_id = r
    /\ r \in DOMAIN rooms

\* a room of exactly two members, each entry holding a submitted result
BothSubmitted(row) ==
    /\ Len(row.users) = 2
    /\ Cardinality(Ids(row.users)) = 2
    /\ row.j_usr_cnt = 2
    /\ row.r_res_cnt = 2
    /\ \A i \in 1..2 : row.users[i].has_score

\* C13: after create_room by one user and an Ok join by a second, once each of
\* the two has called submit_result once the room is Dissolved and results()
\* returns, without error, exactly 2 entries that carry the submitted score and
\* judge_count_list of each member; and the submit_result that makes
\* completed_result_count equal to the occupancy sets status to Dissolved.
\* (Refuted: time_begin of a room that was never started is NULL, and
\* _room_result subtracts it from the time of the call.)
C13_BothSubmitThenResults ==
    [][/\ \A u \in Users, r \in RoomIds :
             (/\ Submits(u, r)
              /\ rooms'[r].r_res_cnt # rooms[r].r_res_cnt
              /\ rooms'[r].r_res_cnt = rooms'[r].j_usr_cnt)
             => rooms'[r].status = Dissolved
       /\ \A r \in RoomIds :
             (Results(r) /\ BothSubmitted(rooms[r]))
             => /\ rooms[r].status = Dissolved
                /\ last'.val = "Ok"
                /\ last'.n = 2
                /\ \A i \in 1..2 :
                      /\ _room_result(rooms[r], now)[i].score = rooms[r].users[i].score
                      /\ _room_result(rooms[r], now)[i].judge_count_list
                            = rooms[r].users[i].judge_count_list]_vars

\* C14: results() of an existing room returns the empty list while
\* completed_result_count < occupancy and fewer than 5 minutes have passed since
\* the play started (a room whose play has not started included); once the two
\* counters are equal or 5 minutes have passed since the start it returns one
\* entry per member, with score -1 and judge_count_list [-1,-1,-1,-1,-1] for a
\* member who never submitted and the submitted values for every other member.
\* (Refuted: results() of a room that was never started raises TypeError.)
C14_ResultsEmptyUntilComplete ==
    [][\A r \in RoomIds :
          Results(r)
          => LET row == rooms[r]
                 timed == row.begun /\ TimedOut(now, row.time_begin)
                 res == ResultUserList(row.users)
             IN /\ last'.val = "Ok"
                /\ (row.r_res_cnt < row.j_usr_cnt /\ ~timed) => last'.n = 0
                /\ (row.r_res_cnt = row.j_usr_cnt \/ timed)
                      => /\ last'.n = row.j_usr_cnt
                         /\ Len(row.users) = row.j_usr_cnt
                         /\ \A i \in 1..Len(row.users) :
                               IF row.users[i].has_score
                               THEN /\ res[i].score = row.users[i].score
                                    /\ res[i].judge_count_list = row.users[i].judge_count_list
                               ELSE /\ res[i].score = Absentee.score
                                    /\ res[i].judge_count_list = Absentee.judge_count_list]_vars

\* the step in which the stale-room wait transaction t runs its _room_start
WaitCompletes(t) ==
    /\ t \in BagToSet(inflight)
    /\ t.op = "room_wait"
    /\ last = NoCall /\ last' = NoCall
    /\ inflight' = Commit(t)

\* C15: when a valid user calls wait on an existing room that is still Waiting
\* and was created 5 or more minutes earlier, the room's stored status is Playing,
\* with time_begin recorded, once that wait call completes; no start by the host
\* is needed.
\* (Refuted: the wait starts the room as the host it read without a lock; a
\* host's leave between the read and the UPDATE makes the UPDATE match no row.)
C15_StaleWaitStartsRoom ==
    [][\A t \in BagToSet(inflight) :
          (/\ WaitCompletes(t)
           /\ t.room_id \in DOMAIN rooms
           /\ rooms[t.room_id].status = Waiting
           /\ TimedOut(now, rooms[t.room_id].time_made))
          => /\ t.room_id \in DOMAIN rooms'
             /\ rooms'[t.room_id].status = Playing
             /\ rooms'[t.room_id].begun]_vars

\* C16: each of create_room, join, wait, start, submit_result and leave, called
\* with a token that no user holds, fails with InvalidToken and with no other
\* error, and leaves every room and every user record unchanged.
\* (Refuted: _get_user_by_token returns None, and the callers subscript or
\* unpack it before they test for None: the call dies of TypeError.)
C16_UnknownTokenIsInvalidToken ==
    [][\A op \in Operations :
          (Completes(op) /\ last'.user \notin Users)
          => /\ last'.val = "InvalidToken"
             /\ rooms' = rooms
             /\ user_room' = user_room]_vars

\* C17: in every reachable state no user id appears more than once in a room's
\* roster, also when the same user has two joins of the room in flight at once
\* (each reads user.room_id before it takes the room lock) and when a user joins
\* again after leaving.
\* (Refuted: both joins read a user.room_id that is not the target, and each
\* appends an entry.)
C17_NoDuplicateInRoster ==
    \A r \in DOMAIN rooms :
        \A i, j \in 1..Len(rooms[r].users) :
            i # j => rooms[r].users[i].id # rooms[r].users[j].id

\* C18: if user.room_id names an existing room then the user is in that room's
\* roster; so after a user's leave the user's room_id no longer names the room
\* left, and a later join of it is a fresh join, not a rejoin.
\* (Refuted: _room_leave never writes user.room_id.)
C18_CurrentRoomImpliesMember ==
    \A u \in Users :
        user_room[u] \in DOMAIN rooms => u \in Ids(rooms[user_room[u]].users)

\* a Dissolved row has a result in every roster entry, or its play timed out
DissolvedOnlyWhenDone(row, time_now) ==
    row.status = Dissolved
    => \/ \A i \in 1..Len(row.users) : row.users[i].has_score
       \/ row.begun /\ TimedOut(time_now, row.time_begin)

\* C19: a room is never Dissolved while a current member has not submitted a
\* result and the 5 minutes of play have not passed; and a submit_result by a
\* member who has already submitted does not increase completed_result_count
\* and does not dissolve the room.
\* (Refuted: every room_end of a member adds one to r_res_cnt.)
C19_DissolvedOnlyWhenAllSubmitted ==
    [][/\ \A r \in DOMAIN rooms' : DissolvedOnlyWhenDone(rooms'[r], now')
       /\ \A u \in Users, r \in RoomIds :
             (/\ Submits(u, r)
              /\ \E i \in Matches(rooms[r].users, u) : rooms[r].users[i].has_score)
             => /\ rooms'[r].r_res_cnt = rooms[r].r_res_cnt
                /\ rooms'[r].status = rooms[r].status]_vars

\* C20: once written, a room's time_begin is never changed, neither by a later
\* start of the host nor by a later wait of a room older than 5 minutes; hence a
\* results() call 5 minutes or more after the start returns a non-empty list.
\* (Refuted: every _room_start that matches the row writes time_begin again.)
C20_PlayStartWrittenOnce ==
    [][/\ \A r \in (DOMAIN rooms) \cap (DOMAIN rooms') :
             rooms[r].begun
             => /\ rooms'[r].begun
                /\ rooms'[r].time_begin = rooms[r].time_begin
       /\ \A r \in RoomIds :
             (Results(r) /\ rooms[r].begun /\ TimedOut(now, rooms[r].time_begin))
             => /\ last'.val = "Ok"
                /\ last'.n > 0]_vars

====
